---- MODULE Spec2Model ----
(***************************************************************************)
(* Model of the Pricky backend: app/main.py (the /chat, /admin/history and *)
(* /send-feedback handlers over the sessions and messages tables),         *)
(* llm_client.py (query_together) and app/services/send_email.py.          *)
(*                                                                         *)
(* Texts are sequences of characters (one-character strings; a few longer  *)
(* atoms stand for a glyph or a whole word).  The database is modelled at  *)
(* the granularity of the statements the handlers' awaits emit: a row is   *)
(* INSERTed into its table by the flush and becomes visible to the other   *)
(* requests at COMMIT; each request has its own AsyncSession (get_db).     *)
(***************************************************************************)
EXTENDS Integers, Sequences, FiniteSets, TLC

(* ---------- bounds of the model ---------- *)
\* number of /chat requests in a run (they may all be in flight together)
NumReq == 2

\* number of /send-feedback calls in a run
MaxFeedback == 2

(* ---------- program constants ---------- *)
\* the word limit of /chat
MaxWords == 60

\* os.getenv("ADMIN_SECRET", "supersecret") with the variable unset
ADMIN_SECRET == "supersecret"

\* Python's None (a request body without session_id, an unset variable)
Null == "<None>"

Reqs == 1..NumReq

(* ---------- str.strip() and str.split() ---------- *)
Whitespace == {" ", "\t", "\n"}

\* positions of s that hold a character str.strip() keeps out of the margins
Inked(s) == {i \in 1..Len(s) : s[i] \notin Whitespace}

Min(S) == CHOOSE x \in S : \A y \in S : x <= y
Max(S) == CHOOSE x \in S : \A y \in S : y <= x

\* s.strip(): from the first to the last non-whitespace character
Strip(s) == IF Inked(s) = {} THEN <<>> ELSE SubSeq(s, Min(Inked(s)), Max(Inked(s)))

\* s.split(): the maximal runs of non-whitespace characters, in order
WordStarts(s) == {i \in Inked(s) : i = 1 \/ s[i - 1] \in Whitespace}
WordEnds(s) == {i \in Inked(s) : i = Len(s) \/ s[i + 1] \in Whitespace}

\* the k-th smallest element of a set of numbers
Nth(S, k) == CHOOSE x \in S : Cardinality({y \in S : y < x}) = k - 1

Split(s) ==
  [k \in 1..Cardinality(WordStarts(s)) |->
     SubSeq(s, Nth(WordStarts(s), k), Nth(WordEnds(s), k))]

(* ---------- /chat: validation (main.py 101-105) ---------- *)
\* a gate whose comparison is off by one word
ValidationStatus_lenient(message) ==
  IF Strip(message) = <<>> THEN 400
  ELSE IF Len(Split(Strip(message))) > MaxWords + 1 THEN 400
  ELSE 0

\* the status /chat raises for a message, 0 when it raises none
ValidationStatus(message) ==
  IF Strip(message) = <<>> THEN 400
  ELSE IF Len(Split(Strip(message))) > MaxWords THEN 400
  ELSE 0

(* ---------- /chat: session id (main.py 107) ---------- *)
\* uuid4() never repeats: the k-th identifier generated by the process
UuidNames == <<"u1", "u2", "u3", "u4", "u5", "u6">>
Uuid4(k) == UuidNames[k]

\* Python truth of an optional string: None and "" are false
Truthy(s) == s # Null /\ s # ""

\* msg.session_id or str(uuid4())
ResolveSessionId(supplied, k) == IF Truthy(supplied) THEN supplied ELSE Uuid4(k)

(* ---------- LLM gateway (llm_client.py 20-40, main.py 125-129) ---------- *)
FallbackGateway == <<"[warn]", " ", "Failed", " ", "to", " ", "contact", " ", "LLM.">>
FallbackChat == <<"[warn]", " ", "Failed", " ", "to", " ", "get", " ", "a", " ", "response.">>

\* what the provider's body holds in choices[0].message.content
LlmContent == <<" ", "Varun", " ", "codes.", "\n">>

\* how one call of the gateway ends
LlmOutcomes == {"ok", "network_error", "bad_status", "malformed_body", "raised"}
LlmFailures == LlmOutcomes \ {"ok"}

\* query_together: the value returned, for the outcomes in which it returns
QueryTogether(outcome) ==
  IF outcome = "ok" THEN Strip(LlmContent) ELSE FallbackGateway

\* an except clause that leaves `result` empty
ChatResult_blank(outcome) ==
  IF outcome = "raised" THEN <<>> ELSE QueryTogether(outcome)

\* chat's try/except around the gateway: the text that becomes `result`
ChatResult(outcome) ==
  IF outcome = "raised" THEN FallbackChat ELSE QueryTogether(outcome)

\* f"<robot> {result}"
ChatResponse(result) == <<"[robot]", " ">> \o result

(* ---------- inputs ---------- *)
\* n one-letter words separated by single blanks
Words(n) == [i \in 1..(2 * n - 1) |-> IF i % 2 = 1 THEN "a" ELSE " "]

\* message bodies a client posts: empty, blank, and padded ones at the word limit
Messages ==
  { <<>>,
    <<" ", "\t">>,
    <<" ">> \o Words(MaxWords) \o <<"\n">>,
    <<"\t">> \o Words(MaxWords + 1) }

\* the trimmed text, the word count and the validation verdict of each body,
\* evaluated once
Question == [m \in Messages |-> Strip(m)]
WordCount == [m \in Messages |-> Len(Split(Strip(m)))]
Verdict == [m \in Messages |-> ValidationStatus(m)]

\* session_id values a client posts: absent, the empty string, an id of its own,
\* or an id a previous /chat response returned
ClientIds == {Null, "", "s1"}

\* secrets a caller of /admin/history presents
Secrets == {ADMIN_SECRET, "supersecre"}

(* ---------- state ---------- *)
VARIABLES
  req,        \* per /chat request: position in the handler, locals, response
  sessions,   \* table sessions, in INSERT order; a row carries its transaction
  messages,   \* table messages, in INSERT order (= id order)
  nextMsgId,  \* the sequence behind messages.id
  now,        \* datetime.utcnow(), a logical clock that ticks at every INSERT
  uuids,      \* number of uuid4() identifiers generated so far
  adminResp,  \* the /admin/history response in flight, status 0 when none
  mail        \* the /send-feedback exchange in flight and the environment

vars == <<req, sessions, messages, nextMsgId, now, uuids, adminResp, mail>>

chatVars == <<req, sessions, messages, nextMsgId, now, uuids>>

Idle ==
  [pc |-> "idle", message |-> <<>>, supplied |-> Null, session_id |-> Null,
   question |-> <<>>, outcome |-> "none", attempts |-> 0, result |-> <<>>,
   status |-> 0, response |-> <<>>, returned |-> Null,
   dbError |-> FALSE, newAtStart |-> FALSE, fresh |-> FALSE]

NoAdminResp == [status |-> 0, secret |-> Null, sessions |-> <<>>]

(* ---------- tables ---------- *)
\* rows of table t that other transactions can see
Committed(t) == SelectSeq(t, LAMBDA row : row.committed)

\* COMMIT of transaction r
CommitTx(t, r) ==
  [i \in 1..Len(t) |-> IF t[i].tx = r THEN [t[i] EXCEPT !.committed = TRUE] ELSE t[i]]

\* ROLLBACK of transaction r (the AsyncSession is closed with work pending)
RollbackTx(t, r) == SelectSeq(t, LAMBDA row : row.committed \/ row.tx # r)

\* a connection in autocommit mode: the row is visible at once
InsertRow_autocommit(t, row) == Append(t, [row EXCEPT !.committed = TRUE])

\* INSERT by the flush of transaction r: the row is pending until COMMIT
InsertRow(t, row) == Append(t, [row EXCEPT !.committed = FALSE])

\* a lookup that never misses
SessionExists_always(id) == TRUE

\* a lookup that also sees the rows other transactions have not committed
SessionExists_dirty(id) == \E i \in 1..Len(sessions) : sessions[i].id = id

\* await db.get(Session, session_id): the committed row, if any
SessionExists(id) == \E i \in 1..Len(sessions) : sessions[i].committed /\ sessions[i].id = id

\* Session(id=session_id), created_at defaulting to utcnow()
NewSession(id, r) == [id |-> id, created_at |-> now, tx |-> r, committed |-> FALSE]

\* the two Message objects of db.add_all (main.py 131-134)
ExchangeRows(r, session_id, question, result) ==
  << [id |-> 0, session_id |-> session_id, sender |-> "user", content |-> question,
      timestamp |-> 0, tx |-> r, committed |-> FALSE],
     [id |-> 0, session_id |-> session_id, sender |-> "bot", content |-> result,
      timestamp |-> 0, tx |-> r, committed |-> FALSE] >>

\* the INSERT assigns the next id of the sequence and the timestamp default
Stamped(row) == [row EXCEPT !.id = nextMsgId, !.timestamp = now]

(* ---------- Init ---------- *)
\* what the database holds when the process starts: nothing, or the session
\* and the exchange a /chat call of an earlier run (transaction 0) left
Earlier ==
  [sessions |-> <<[id |-> "s1", created_at |-> 1, tx |-> 0, committed |-> TRUE]>>,
   messages |-> <<[id |-> 1, session_id |-> "s1", sender |-> "user",
                   content |-> <<"h", "i">>, timestamp |-> 2, tx |-> 0,
                   committed |-> TRUE],
                  [id |-> 2, session_id |-> "s1", sender |-> "bot",
                   content |-> <<"Varun", " ", "codes.">>, timestamp |-> 3, tx |-> 0,
                   committed |-> TRUE]>>]

Fresh == [sessions |-> <<>>, messages |-> <<>>]

ChatInit ==
  /\ req = [r \in Reqs |-> Idle]
  /\ \E db \in {Fresh, Earlier} :
       /\ sessions = db.sessions
       /\ messages = db.messages
       /\ nextMsgId = Len(db.messages) + 1
       /\ now = Len(db.sessions) + Len(db.messages) + 1
  /\ uuids = 0
  /\ adminResp = NoAdminResp

(* ---------- /chat ---------- *)
\* ids a client may post now
SuppliedIds ==
  ClientIds \cup {req[q].returned : q \in {p \in Reqs : req[p].status = 200}}

\* the request ends with an HTTP error: nothing of it stays pending
Respond(r, status, dbError) ==
  /\ req' = [req EXCEPT ![r] = [Idle EXCEPT !.pc = "done", !.message = req[r].message,
                                   !.supplied = req[r].supplied,
                                   !.session_id = req[r].session_id,
                                   !.attempts = req[r].attempts,
                                   !.outcome = req[r].outcome,
                                   !.newAtStart = req[r].newAtStart,
                                   !.status = status, !.dbError = dbError]]
  /\ sessions' = RollbackTx(sessions, r)
  /\ messages' = RollbackTx(messages, r)

\* main.py 101-107: trim, validate, resolve the session id
Start(r) ==
  /\ req[r].pc = "idle"
  /\ \A q \in Reqs : q < r => req[q].pc # "idle"
  /\ \E m \in Messages, s \in SuppliedIds :
       IF Verdict[m] # 0
       THEN /\ req' = [req EXCEPT ![r] = [Idle EXCEPT !.pc = "done", !.message = m,
                                            !.supplied = s,
                                            !.status = Verdict[m]]]
            /\ uuids' = uuids
       ELSE LET id == ResolveSessionId(s, uuids + 1) IN
            /\ req' = [req EXCEPT ![r] = [Idle EXCEPT !.pc = "get", !.message = m,
                                            !.supplied = s, !.question = Question[m],
                                            !.session_id = id,
                                            !.newAtStart = ~SessionExists(id),
                                            !.fresh = \A i \in 1..Len(sessions) : sessions[i].id # id]]
            /\ uuids' = IF Truthy(s) THEN uuids ELSE uuids + 1
  /\ UNCHANGED <<sessions, messages, nextMsgId, now, adminResp, mail>>

\* main.py 108-109: await db.get(Session, session_id)
Get(r) ==
  /\ req[r].pc = "get"
  /\ req' = [req EXCEPT ![r].pc =
               IF SessionExists(req[r].session_id) THEN "llm" ELSE "insert_session"]
  /\ UNCHANGED <<sessions, messages, nextMsgId, now, uuids, adminResp, mail>>

\* main.py 110-112, the flush of db.commit(): INSERT INTO sessions.  The
\* primary key makes it wait for a pending row with the same id, and fail with
\* IntegrityError, which nothing catches, when that row is committed.
InsertSession(r) ==
  /\ req[r].pc = "insert_session"
  /\ ~\E i \in 1..Len(sessions) :
        sessions[i].id = req[r].session_id /\ ~sessions[i].committed /\ sessions[i].tx # r
  /\ IF \E i \in 1..Len(sessions) : sessions[i].id = req[r].session_id
     THEN /\ Respond(r, 500, FALSE)
          /\ now' = now
     ELSE /\ sessions' = InsertRow(sessions, NewSession(req[r].session_id, r))
          /\ now' = now + 1
          /\ req' = [req EXCEPT ![r].pc = "commit_session"]
          /\ messages' = messages
  /\ UNCHANGED <<nextMsgId, uuids, adminResp, mail>>

\* main.py 112: the COMMIT of db.commit()
CommitSession(r) ==
  /\ req[r].pc = "commit_session"
  /\ sessions' = CommitTx(sessions, r)
  /\ req' = [req EXCEPT ![r].pc = "llm"]
  /\ UNCHANGED <<messages, nextMsgId, now, uuids, adminResp, mail>>

\* main.py 125-129: one call of query_together, its failure absorbed
CallLLM(r) ==
  /\ req[r].pc = "llm"
  /\ \E o \in LlmOutcomes :
       req' = [req EXCEPT ![r].pc = "insert_user", ![r].outcome = o,
                          ![r].attempts = @ + 1, ![r].result = ChatResult(o)]
  /\ UNCHANGED <<sessions, messages, nextMsgId, now, uuids, adminResp, mail>>

\* main.py 131-135, the flush of db.commit(): one INSERT per Message object
InsertMessage(r, k, next) ==
  /\ messages' = InsertRow(messages,
       Stamped(ExchangeRows(r, req[r].session_id, req[r].question, req[r].result)[k]))
  /\ nextMsgId' = nextMsgId + 1
  /\ now' = now + 1
  /\ req' = [req EXCEPT ![r].pc = next]
  /\ UNCHANGED <<sessions, uuids, adminResp, mail>>

InsertUser(r) == req[r].pc = "insert_user" /\ InsertMessage(r, 1, "insert_bot")

InsertBot(r) == req[r].pc = "insert_bot" /\ InsertMessage(r, 2, "commit_msgs")

\* main.py 135-137: the COMMIT, then the response
CommitMsgs(r) ==
  /\ req[r].pc = "commit_msgs"
  /\ messages' = CommitTx(messages, r)
  /\ req' = [req EXCEPT ![r].pc = "done", ![r].status = 200,
                        ![r].response = ChatResponse(req[r].result),
                        ![r].returned = req[r].session_id]
  /\ UNCHANGED <<sessions, nextMsgId, now, uuids, adminResp, mail>>

\* an await on the database fails (connection lost, server gone): the
\* exception leaves the handler, get_db closes the AsyncSession, HTTP 500
DbSteps == {"get", "insert_session", "commit_session", "insert_user", "insert_bot",
            "commit_msgs"}

DbError(r) ==
  /\ req[r].pc \in DbSteps
  /\ Respond(r, 500, TRUE)
  /\ UNCHANGED <<nextMsgId, now, uuids, adminResp, mail>>

(* ---------- /admin/history (main.py 139-159) ---------- *)
\* ORDER BY created_at DESC over the committed rows: repeatedly take the newest
RECURSIVE OrderByCreatedDesc(_)
OrderByCreatedDesc(rows) ==
  IF rows = <<>> THEN <<>>
  ELSE LET i == CHOOSE k \in 1..Len(rows) :
                  \A j \in 1..Len(rows) : rows[j].created_at <= rows[k].created_at
       IN <<rows[i]>> \o
          OrderByCreatedDesc(SelectSeq(rows, LAMBDA row : row # rows[i]))

\* the committed messages of one session, in table order, as the response shows them
MessagesOf(id) ==
  LET own == SelectSeq(Committed(messages), LAMBDA m : m.session_id = id)
  IN [i \in 1..Len(own) |->
        [from |-> own[i].sender, text |-> own[i].content, timestamp |-> own[i].timestamp]]

\* the dump the handler is written to return
FullHistory ==
  LET objs == OrderByCreatedDesc(Committed(sessions))
  IN [i \in 1..Len(objs) |->
        [session_id |-> objs[i].id, created_at |-> objs[i].created_at,
         messages |-> MessagesOf(objs[i].id)]]

\* The handler's response.  The Session objects come from a select() in this
\* request's own AsyncSession with no eager loading, so `s.messages` of the
\* first one is a lazy load: implicit IO outside a greenlet, which the asyncio
\* extension refuses with MissingGreenlet.  Nothing catches it: HTTP 500.
AdminHistory(secret) ==
  IF secret # ADMIN_SECRET
  THEN [status |-> 403, secret |-> secret, sessions |-> <<>>]
  ELSE IF Committed(sessions) = <<>>
       THEN [status |-> 200, secret |-> secret, sessions |-> <<>>]
       ELSE [status |-> 500, secret |-> secret, sessions |-> <<>>]

AdminCall ==
  /\ adminResp.status = 0
  /\ \E secret \in Secrets : adminResp' = AdminHistory(secret)
  /\ UNCHANGED <<chatVars, mail>>

\* the response reaches the caller
AdminDeliver ==
  /\ adminResp.status # 0
  /\ adminResp' = NoAdminResp
  /\ UNCHANGED <<chatVars, mail>>

(* ---------- send_email and /send-feedback ---------- *)
\* str.capitalize() on the keys a form posts
Upper(c) == CASE c = "t" -> "T" [] c = "n" -> "N" [] OTHER -> c
Lower(c) ==
  CASE c = "T" -> "t" [] c = "N" -> "n" [] c = "O" -> "o" [] c = "E" -> "e" [] OTHER -> c

Capitalize(k) ==
  IF k = <<>> THEN <<>>
  ELSE <<Upper(Head(k))>> \o [i \in 1..(Len(k) - 1) |-> Lower(k[i + 1])]

\* "\n".join(f"{key.capitalize()}: {val}" for key, val in data.items())
RECURSIVE JoinLines(_)
JoinLines(data) ==
  IF data = <<>> THEN <<>>
  ELSE LET line == Capitalize(data[1].key) \o <<":", " ">> \o data[1].val
       IN IF Len(data) = 1 THEN line ELSE line \o <<"\n">> \o JoinLines(Tail(data))

\* data.get("type"): the value of the key, None when absent
RECURSIVE DictGet(_, _)
DictGet(data, key) ==
  IF data = <<>> THEN <<Null>>
  ELSE IF data[1].key = key THEN data[1].val ELSE DictGet(Tail(data), key)

TypeKey == <<"t", "y", "p", "e">>
Contact == <<"c", "o", "n", "t", "a", "c", "t">>

Subject(data) ==
  IF DictGet(data, TypeKey) = Contact THEN "New Contact Form Submission"
  ELSE "New Issue Report"

\* a character no codec of MIMEText encodes: a lone surrogate, which JSON's
\* \ud800 escape puts into a str
Surrogate == "[ud800]"

Encodable(body) == \A i \in 1..Len(body) : body[i] # Surrogate

\* payloads a form posts
Datas ==
  { <<>>,
    <<[key |-> TypeKey, val |-> Contact], [key |-> <<"n", "a", "m", "e">>, val |-> <<"J", "o">>]>>,
    <<[key |-> <<"N", "O", "T", "E">>, val |-> <<"h", "i">>]>>,
    <<[key |-> <<"n", "a", "m", "e">>, val |-> <<"J", Surrogate>>]>> }

\* how the SMTP exchange goes once it is attempted
SmtpOutcomes == {"connect_failed", "login_failed", "sendmail_failed", "submitted"}

\* send_email.py 15-32.  returned: "true", "false", or "raised" when an
\* exception leaves the function; attempts: SMTP_SSL connections tried;
\* sent: the messages handed to the relay.
SendEmail(subject, body, user, pass, smtp) ==
  IF ~Truthy(user) \/ ~Truthy(pass)
  THEN [returned |-> "false", attempts |-> 0, smtp |-> "none", sent |-> <<>>]
  ELSE IF ~Encodable(body)
  THEN [returned |-> "raised", attempts |-> 0, smtp |-> "none", sent |-> <<>>]
  ELSE IF smtp = "submitted"
  THEN [returned |-> "true", attempts |-> 1, smtp |-> smtp,
        sent |-> <<[subject |-> subject, body |-> body, from |-> user]>>]
  ELSE [returned |-> "false", attempts |-> 1, smtp |-> smtp, sent |-> <<>>]

\* main.py 161-169; an exception out of send_email is the framework's HTTP 500
SendFeedback(data, user, pass, smtp) ==
  LET e == SendEmail(Subject(data), JoinLines(data), user, pass, smtp)
  IN [status |-> IF e.returned = "true" THEN 200 ELSE 500,
      message |-> IF e.returned = "true" THEN "Email sent successfully"
                  ELSE IF e.returned = "false" THEN "Failed to send email"
                  ELSE "Internal Server Error",
      data |-> data, email |-> e]

NoFeedback ==
  [status |-> 0, message |-> "", data |-> <<>>,
   email |-> [returned |-> "none", attempts |-> 0, smtp |-> "none", sent |-> <<>>]]

\* EMAIL_USER and EMAIL_PASS as the environment sets them
MailEnvs == {[user |-> u, pass |-> p] : u \in {Null, "", "me@x"}, p \in {Null, "pw"}}

MailInit == \E env \in MailEnvs :
  mail = [user |-> env.user, pass |-> env.pass, calls |-> 0, outbox |-> <<>>,
          last |-> NoFeedback]

Feedback ==
  /\ mail.calls < MaxFeedback
  /\ \E data \in Datas, smtp \in SmtpOutcomes :
       LET resp == SendFeedback(data, mail.user, mail.pass, smtp)
       IN mail' = [mail EXCEPT !.calls = @ + 1, !.last = resp,
                               !.outbox = @ \o resp.email.sent]
  /\ UNCHANGED <<chatVars, adminResp>>

(* ---------- specifications ---------- *)
\* the chat and admin endpoints over the shared tables
Init == ChatInit /\ mail = [user |-> "me@x", pass |-> "pw", calls |-> 0,
                            outbox |-> <<>>, last |-> NoFeedback]

Next ==
  \/ \E r \in Reqs : Start(r)
  \/ \E r \in Reqs : Get(r)
  \/ \E r \in Reqs : InsertSession(r)
  \/ \E r \in Reqs : CommitSession(r)
  \/ \E r \in Reqs : CallLLM(r)
  \/ \E r \in Reqs : InsertUser(r)
  \/ \E r \in Reqs : InsertBot(r)
  \/ \E r \in Reqs : CommitMsgs(r)
  \/ \E r \in Reqs : DbError(r)
  \/ AdminCall
  \/ AdminDeliver

Spec == Init /\ [][Next]_vars

\* the feedback endpoint, which shares no state with the other two
InitMail == ChatInit /\ MailInit

NextMail == Feedback

SpecMail == InitMail /\ [][NextMail]_vars

(* ---------- vocabulary of the properties ---------- *)
Done(r) == req[r].pc = "done"

\* the message passes the validation gate as the specification words it
ValidMessage(m) == Question[m] # <<>> /\ WordCount[m] <= MaxWords

\* rows of a table that request r's transaction wrote, pending ones included
RowsOf(t, r) == SelectSeq(t, LAMBDA row : row.tx = r)

\* committed rows of table sessions / messages with a given session id
SessionRows(id) == SelectSeq(Committed(sessions), LAMBDA row : row.id = id)
MessageRows(id) == SelectSeq(Committed(messages), LAMBDA row : row.session_id = id)

\* text f occurs in text t
Contains(t, f) ==
  \E i \in 0..(Len(t) - Len(f)) : SubSeq(t, i + 1, i + Len(f)) = f

\* session ids the server keys rows by
SessionIds == {"s1"} \cup {UuidNames[k] : k \in 1..Len(UuidNames)}

(* ---------- C1 ---------- *)
\* C1: two /chat requests with valid messages and the same supplied session_id,
\* for which no Session row existed when either started, both end without an
\* error response and leave exactly one Session row with that id.
C1_RaceCreatesOneSessionNoError ==
  \A r1, r2 \in Reqs :
    ( /\ r1 # r2 /\ Done(r1) /\ Done(r2)
      /\ ValidMessage(req[r1].message) /\ ValidMessage(req[r2].message)
      /\ Truthy(req[r1].supplied) /\ req[r1].supplied = req[r2].supplied
      /\ req[r1].newAtStart /\ req[r2].newAtStart
      /\ ~req[r1].dbError /\ ~req[r2].dbError )
    => /\ Len(SessionRows(req[r1].supplied)) = 1
       /\ req[r1].status = 200
       /\ req[r2].status = 200

(* ---------- C2 ---------- *)
\* C2: a /chat request whose message is empty after trimming, or has more than
\* 60 words, is answered 400, wrote no Session row and no Message row (pending
\* or committed), and never called the LLM gateway.
C2_InvalidRejectedNothingPersisted ==
  \A r \in Reqs :
    (req[r].pc # "idle" /\ ~ValidMessage(req[r].message))
    => /\ Done(r)
       /\ req[r].status = 400
       /\ RowsOf(sessions, r) = <<>>
       /\ RowsOf(messages, r) = <<>>
       /\ req[r].attempts = 0

\* a 61-word message with a new session id and a blank message were both rejected
C2_Witness ==
  \E r1, r2 \in Reqs :
    /\ Done(r1) /\ WordCount[req[r1].message] = MaxWords + 1
    /\ req[r1].supplied = "s1" /\ SessionRows("s1") = <<>> /\ req[r1].status = 400
    /\ Done(r2) /\ req[r2].message # <<>> /\ Question[req[r2].message] = <<>>
    /\ req[r2].status = 400

(* ---------- C3 ---------- *)
\* C3: a /chat request with a valid message that met no database failure is
\* answered 200 with a non-empty response; the returned session_id is the
\* supplied one whenever one is supplied (any string), and a fresh id, equal to
\* no existing Session id, when none is supplied.
C3_ValidAnsweredWithSuppliedId ==
  \A r \in Reqs :
    (Done(r) /\ ValidMessage(req[r].message) /\ ~req[r].dbError)
    => /\ req[r].status = 200
       /\ req[r].response # <<>>
       /\ req[r].supplied # Null => req[r].returned = req[r].supplied
       /\ req[r].supplied = Null => req[r].fresh

(* ---------- C4 ---------- *)
\* C4: for every session id, after n successful /chat calls that carried it,
\* exactly one Session row has that id and the calls' Message rows that
\* reference it number 2n: at most one row with that id is ever written, and
\* each successful call committed exactly two Message rows.
Successes(id) == {r \in Reqs : Done(r) /\ req[r].status = 200 /\ req[r].session_id = id}

C5_LlmFailureAbsorbed ==
  \A r \in Reqs :
    (Done(r) /\ req[r].outcome \in LlmFailures /\ ~req[r].dbError)
    => /\ req[r].status = 200
       /\ req[r].attempts = 1
       /\ \E f \in {FallbackGateway, FallbackChat} :
            LET own == RowsOf(Committed(messages), r) IN
            /\ Contains(req[r].response, f)
            /\ Len(own) = 2
            /\ own[1].sender = "user" /\ own[1].content = Question[req[r].message]
            /\ own[2].sender = "bot" /\ own[2].content = f

\* one request absorbed a network error, another an exception out of the gateway
C5_Witness ==
  \E r1, r2 \in Reqs :
    /\ Done(r1) /\ req[r1].outcome = "network_error" /\ req[r1].status = 200
    /\ Done(r2) /\ req[r2].outcome = "raised" /\ req[r2].status = 200

(* ---------- C6 ---------- *)
\* C6: every /admin/history call leaves both tables as they are; with the
\* configured secret it answers 200 with every Session row, newest first, each
\* with its Messages in insertion order; with any other secret it answers 403
\* with no session data.
C6_AdminHistoryDumpsEverything ==
  [][ (adminResp.status = 0 /\ adminResp'.status # 0)
      => /\ sessions' = sessions
         /\ messages' = messages
         /\ IF adminResp'.secret = ADMIN_SECRET
            THEN adminResp'.status = 200 /\ adminResp'.sessions = FullHistory
            ELSE adminResp'.status = 403 /\ adminResp'.sessions = <<>> ]_vars

(* ---------- C7 ---------- *)
\* C7: in every state the committed Message rows of a /chat request are none,
\* or exactly two, its user Message followed by its bot Message; they are none
\* for a request that was rejected or whose database step failed.
C7_ExchangeAtomic ==
  \A r \in Reqs :
    LET own == RowsOf(Committed(messages), r) IN
    /\ \/ own = <<>>
       \/ Len(own) = 2 /\ own[1].sender = "user" /\ own[2].sender = "bot"
    /\ (req[r].status \in {400, 500}) => own = <<>>

\* a request lost its database after the gateway answered and both rows were
\* inserted, and persisted nothing, while another request persisted its pair
C7_Witness ==
  \E r1, r2 \in Reqs :
    /\ Done(r1) /\ req[r1].dbError /\ req[r1].attempts = 1
    /\ RowsOf(messages, r1) = <<>> /\ nextMsgId > Len(messages) + 2
    /\ Len(RowsOf(Committed(messages), r2)) = 2

(* ---------- C8 ---------- *)
\* C8: in every state every Message row, pending or committed, carries a
\* session_id that is not None and is the id of a committed Session row (so the
\* Session was committed before the Message was inserted); and no step deletes
\* or changes a committed Session row.
RowSet(t) == {t[i] : i \in 1..Len(t)}

C8_MessagesReferenceSessions ==
  /\ [] (\A i \in 1..Len(messages) :
           /\ messages[i].session_id # Null
           /\ SessionRows(messages[i].session_id) # <<>>)
  /\ [][RowSet(Committed(sessions)) \subseteq RowSet(Committed(sessions'))]_vars

\* two requests in flight on the same session both hold inserted Message rows
C8_Witness ==
  \E r1, r2 \in Reqs :
    /\ r1 # r2
    /\ RowsOf(messages, r1) # <<>> /\ RowsOf(messages, r2) # <<>>
    /\ req[r1].session_id = req[r2].session_id
    /\ req[r1].newAtStart
    /\ req[r1].pc = "insert_bot"

(* ---------- C9 ---------- *)
\* C9: send_email never raises; without the account identity or the secret it
\* returns false and opens no SMTP connection; after a connection,
\* authentication or submission failure it returns false having tried once; it
\* returns true only when the message was submitted; and /send-feedback
\* answers 200 "Email sent successfully" exactly when send_email returned true,
\* 500 otherwise.
C9_SendEmailNeverRaises ==
  LET f == mail.last
      e == mail.last.email IN
  f.status # 0 =>
    /\ e.returned \in {"true", "false"}
    /\ (~Truthy(mail.user) \/ ~Truthy(mail.pass)) => (e.returned = "false" /\ e.attempts = 0)
    /\ e.smtp \in {"connect_failed", "login_failed", "sendmail_failed"}
         => (e.returned = "false" /\ e.attempts = 1)
    /\ e.returned = "true" => (e.smtp = "submitted" /\ Len(e.sent) = 1)
    /\ f.status = 200 <=> e.returned = "true"
    /\ f.status = 200 => f.message = "Email sent successfully"
    /\ f.status # 200 => f.status = 500

(* ---------- C10 ---------- *)
\* C10: for every session that existed before the requests writing to it
\* started, its committed Messages in insertion order are whole exchanges: each
\* odd row is a user Message and the next row is the bot Message of the same
\* request.
C10_ExchangesContiguous ==
  \A id \in SessionIds :
    LET rows == MessageRows(id) IN
    (\A r \in Reqs : RowsOf(rows, r) # <<>> => ~req[r].newAtStart)
    => /\ Len(rows) % 2 = 0
       /\ \A k \in 1..(Len(rows) \div 2) :
            /\ rows[2 * k - 1].sender = "user"
            /\ rows[2 * k].sender = "bot"
            /\ rows[2 * k].tx = rows[2 * k - 1].tx

====
